---- MODULE Spec2Model ----
(***************************************************************************)
(* A model of src/extract_pages.py: the page-spec parser parse_page_spec,  *)
(* the extraction operation extract_pages_pypdf and the click command main.*)
(* Strings are sequences of one-character strings, so that splitting,      *)
(* trimming, pattern matching and int() are computed character by          *)
(* character as the code does.                                             *)
(***************************************************************************)
EXTENDS Integers, Sequences, FiniteSets

VARIABLES
    page_spec,      \* parse_page_spec: the argument page_spec
    total_pages,    \* parse_page_spec: the argument total_pages, <<>> is None, <<n>> is n
    ppc,            \* position of the parser's caller: "call", "returned", "reparsed"
    presult,        \* what parse_page_spec(page_spec, total_pages) returned or raised
    presult2,       \* what the second call, on the comma-joined first result, returned
    doc,            \* the source PDF: [encrypted, npages, metadata]
    output_path,    \* extract_pages_pypdf: the argument output_path
    page_numbers,   \* extract_pages_pypdf: the argument page_numbers
    copy_metadata,  \* extract_pages_pypdf: the argument copy_metadata
    dirs,           \* the directories that exist (the root and the cwd always do)
    files,          \* the files that exist: path -> content
    dirs0,          \* dirs when extract_pages_pypdf was called
    files0,         \* files when extract_pages_pypdf was called
    epc,            \* extract_pages_pypdf: the statement to run next
    writer,         \* the PdfWriter: [pages, metadata]
    idx,            \* the for loop's position in page_numbers
    estatus,        \* "running", "ok" or the exception that ended the call
    input_path,     \* main: the option --input
    pages,          \* main: the option --pages
    output,         \* main: the option --output, <<>> when not given
    input_files,    \* the paths that are regular files main can find
    readable,       \* whether pypdf.PdfReader(full_path) opens the file
    mpc,            \* main: the step to run next
    full_path,      \* main: full_path
    main_total,     \* main: total_pages
    main_pages,     \* main: page_numbers
    exit_code,      \* the exit status of the command, -1 while it runs
    stderr,         \* the error message shown, NoMessage when none
    stdout,         \* the confirmation echoed, NoMessage when none
    trace           \* the steps main has run, in order

pvars == <<page_spec, total_pages, ppc, presult, presult2>>

evars == <<doc, output_path, page_numbers, copy_metadata, dirs, files, dirs0,
           files0, epc, writer, idx, estatus>>

mvars == <<input_path, pages, output, input_files, readable, mpc, full_path,
           main_total, main_pages, exit_code, stderr, stdout, trace>>

vars == <<pvars, evars, mvars>>

----------------------------------------------------------------------------
(* Bounds of the model. *)

\* Longest page_spec drawn in Init.
MaxSpecLen == 5

\* Longest run of digits in a page_spec drawn in Init.
MaxDigits == 2

\* Largest total_pages drawn in Init.
MaxTotalPages == 2

\* Most pages of a source document.
MaxPages == 2

\* Longest page_numbers handed to extract_pages_pypdf.
MaxPageNumbers == 2

----------------------------------------------------------------------------
(* Characters and strings. *)

DigitChars == <<"0", "1", "2", "3", "4", "5", "6", "7", "8", "9">>

\* \d of the two patterns (the ASCII digits).
Digits == {DigitChars[i] : i \in 1..10}

\* What str.strip() removes (the model's inputs hold the space only).
Whitespace == {" "}

\* The characters the page specs of Init are made of.
SpecAlphabet == {"0", "1", "2", "-", ",", " ", "a"}

\* The value of one decimal digit, as int() reads it.
DigitVal(c) == (CHOOSE i \in 1..10 : DigitChars[i] = c) - 1

\* int(s) on a string of digits (leading zeros allowed).
RECURSIVE ToInt(_)
ToInt(s) ==
    IF s = <<>> THEN 0
    ELSE ToInt(SubSeq(s, 1, Len(s) - 1)) * 10 + DigitVal(s[Len(s)])

\* page_spec.split(','): always at least one piece, empty pieces kept.
RECURSIVE Split(_)
Split(s) ==
    IF \A i \in 1..Len(s) : s[i] # ","
    THEN <<s>>
    ELSE LET i == CHOOSE k \in 1..Len(s) :
                      s[k] = "," /\ \A j \in 1..(k - 1) : s[j] # ","
         IN <<SubSeq(s, 1, i - 1)>> \o Split(SubSeq(s, i + 1, Len(s)))

\* raw_part.strip(): leading and trailing whitespace removed.
RECURSIVE Strip(_)
Strip(s) ==
    IF s = <<>> THEN s
    ELSE IF s[1] \in Whitespace THEN Strip(Tail(s))
    ELSE IF s[Len(s)] \in Whitespace THEN Strip(SubSeq(s, 1, Len(s) - 1))
    ELSE s

\* _SINGLE_RE = ^\d+$
MatchSingle(part) ==
    Len(part) > 0 /\ \A i \in 1..Len(part) : part[i] \in Digits

\* _RANGE_RE = ^(\d+)-(\d+)$
MatchRange(part) ==
    \E i \in 1..Len(part) :
        /\ part[i] = "-"
        /\ MatchSingle(SubSeq(part, 1, i - 1))
        /\ MatchSingle(SubSeq(part, i + 1, Len(part)))

\* m.groups() of a piece that matches _RANGE_RE, through map(int, ...).
RangeGroups(part) ==
    LET i == CHOOSE k \in 1..Len(part) : part[k] = "-"
    IN <<ToInt(SubSeq(part, 1, i - 1)), ToInt(SubSeq(part, i + 1, Len(part)))>>

----------------------------------------------------------------------------
(* parse_page_spec. *)

\* A ValueError of parse_page_spec: which raise statement, and the piece or
\* the list its message holds.
Raise(kind, part, invalid) ==
    [status |-> kind, part |-> part, value |-> <<>>, invalid |-> invalid]

\* A normal return of parse_page_spec.
Return(list) ==
    [status |-> "ok", part |-> <<>>, value |-> list, invalid |-> <<>>]

\* range(start, end): the last page of the range is left out.
RangeNumbersExclusive(start, end) == start..(end - 1)

\* for i in range(start, end + 1): numbers.add(i)
RangeNumbers(start, end) == start..end

\* numbers.add(num - 1): the page number turned into an index too early.
SingleNumberZeroBased(num) == {num - 1}

\* numbers.add(num)
SingleNumber(num) == {num}

\* The two checks in the other order: start > end is looked at first.
RangeCheckOrderFirst(start, end) ==
    IF start > end THEN "start_gt_end"
    ELSE IF start <= 0 \/ end <= 0 THEN "bad_range"
    ELSE ""

\* The checks on a piece that matched _RANGE_RE: "" when it passes.
RangeCheck(start, end) ==
    IF start <= 0 \/ end <= 0 THEN "bad_range"
    ELSE IF start > end THEN "start_gt_end"
    ELSE ""

\* The body of the for loop over the pieces, from piece k on, with the set
\* numbers built so far: the set, or the first ValueError raised.
RECURSIVE ParseParts(_, _, _)
ParseParts(parts, k, numbers) ==
    IF k > Len(parts) THEN [status |-> "ok", part |-> <<>>, numbers |-> numbers]
    ELSE LET part == Strip(parts[k]) IN
         IF part = <<>> THEN ParseParts(parts, k + 1, numbers)
         ELSE IF MatchRange(part)
         THEN LET g == RangeGroups(part)
                  c == RangeCheck(g[1], g[2])
              IN IF c # ""
                 THEN [status |-> c, part |-> part, numbers |-> {}]
                 ELSE ParseParts(parts, k + 1,
                                 numbers \cup RangeNumbers(g[1], g[2]))
         ELSE IF MatchSingle(part)
         THEN LET num == ToInt(part)
              IN IF num <= 0
                 THEN [status |-> "bad_number", part |-> part, numbers |-> {}]
                 ELSE ParseParts(parts, k + 1, numbers \cup SingleNumber(num))
         ELSE [status |-> "bad_format", part |-> part, numbers |-> {}]

\* sorted(numbers)
RECURSIVE Sorted(_)
Sorted(S) ==
    IF S = {} THEN <<>>
    ELSE LET m == CHOOSE x \in S : \A y \in S : x <= y
         IN <<m>> \o Sorted(S \ {m})

\* [n for n in sorted_numbers if n > total_pages]
Invalid(sorted_numbers, tp) ==
    SelectSeq(sorted_numbers, LAMBDA n : n > tp)

\* "if total_pages:" in place of "if total_pages is not None:".
CheckTotalTruthy(sorted_numbers, tp) ==
    IF tp # <<>> /\ tp[1] # 0 /\ Invalid(sorted_numbers, tp[1]) # <<>>
    THEN Raise("out_of_range", <<>>, Invalid(sorted_numbers, tp[1]))
    ELSE Return(sorted_numbers)

\* The check against total_pages and the return.
CheckTotal(sorted_numbers, tp) ==
    IF tp # <<>> /\ Invalid(sorted_numbers, tp[1]) # <<>>
    THEN Raise("out_of_range", <<>>, Invalid(sorted_numbers, tp[1]))
    ELSE Return(sorted_numbers)

parse_page_spec(spec, tp) ==
    LET r == ParseParts(Split(spec), 1, {})
    IN IF r.status # "ok"
       THEN Raise(r.status, r.part, <<>>)
       ELSE CheckTotal(Sorted(r.numbers), tp)

----------------------------------------------------------------------------
(* The caller of the parser: one call, then a second call on the first     *)
(* call's result joined with commas.                                       *)

\* str(n) for n >= 0.
RECURSIVE Str(_)
Str(n) ==
    IF n < 10 THEN <<DigitChars[n + 1]>>
    ELSE Str(n \div 10) \o <<DigitChars[(n % 10) + 1]>>

\* ",".join(str(n) for n in list)
RECURSIVE Join(_)
Join(list) ==
    IF list = <<>> THEN <<>>
    ELSE IF Len(list) = 1 THEN Str(list[1])
    ELSE Str(list[1]) \o <<",">> \o Join(Tail(list))

Strings(alphabet, n) == UNION {[1..k -> alphabet] : k \in 0..n}

None == <<>>

NoResult == Raise("none", <<>>, <<>>)

\* No run of more than n digits in s.
DigitRunsWithin(s, n) ==
    \A i \in 1..(Len(s) - n) : \E j \in i..(i + n) : s[j] \notin Digits

ParseInit ==
    /\ page_spec \in {s \in Strings(SpecAlphabet, MaxSpecLen) :
                          DigitRunsWithin(s, MaxDigits)}
    /\ total_pages \in {None} \cup {<<n>> : n \in 0..MaxTotalPages}
    /\ ppc = "call"
    /\ presult = NoResult
    /\ presult2 = NoResult

ParseCall ==
    /\ ppc = "call"
    /\ presult' = parse_page_spec(page_spec, total_pages)
    /\ ppc' = "returned"
    /\ UNCHANGED <<page_spec, total_pages, presult2>>
    /\ UNCHANGED <<evars, mvars>>

ReparseCall ==
    /\ ppc = "returned"
    /\ presult.status = "ok"
    /\ presult2' = parse_page_spec(Join(presult.value), total_pages)
    /\ ppc' = "reparsed"
    /\ UNCHANGED <<page_spec, total_pages, presult>>
    /\ UNCHANGED <<evars, mvars>>

ParseNext == ParseCall \/ ReparseCall

----------------------------------------------------------------------------
(* Paths and the file system.                                              *)

\* The last position of "/" in p, 0 when there is none: p.rfind('/') + 1.
LastSlash(p) ==
    LET at == {i \in 1..Len(p) : p[i] = "/"}
    IN IF at = {} THEN 0 ELSE CHOOSE i \in at : \A j \in at : i >= j

\* head.rstrip('/')
RECURSIVE RStripSlash(_)
RStripSlash(p) ==
    IF p # <<>> /\ p[Len(p)] = "/" THEN RStripSlash(SubSeq(p, 1, Len(p) - 1))
    ELSE p

\* os.path.dirname(p): "" for a bare file name.
Dirname(p) ==
    LET head == SubSeq(p, 1, LastSlash(p))
    IN IF head # <<>> /\ \E i \in 1..Len(head) : head[i] # "/"
       THEN RStripSlash(head)
       ELSE head

\* os.path.isdir(p) for the paths of the model: the root always exists.
IsDir(d, p) == p \in d \/ (p # <<>> /\ \A i \in 1..Len(p) : p[i] = "/")

\* The directory p and the directories above it.
Ancestors(p) ==
    {SubSeq(p, 1, i) : i \in {j \in 1..Len(p) :
                                  /\ p[j] # "/"
                                  /\ (j = Len(p) \/ p[j + 1] = "/")}}

\* os.makedirs with the empty name taken as the current directory: what
\* "the output directory exists" would need for a bare file name.  With this
\* in place of Makedirs, C5_OutputPages and C7_DirectoryReady hold.
MakedirsEmptyOk(d, p) ==
    [status |-> "ok",
     dirs |-> d \cup {a \in Ancestors(p) : ~IsDir(d, a)}]

\* os.makedirs(p, exist_ok=True): mkdir("") raises FileNotFoundError.
Makedirs(d, p) ==
    IF p = <<>>
    THEN [status |-> "FileNotFoundError", dirs |-> d]
    ELSE [status |-> "ok",
          dirs |-> d \cup {a \in Ancestors(p) : ~IsDir(d, a)}]

\* open(p, "wb") can create the file: its directory exists ("" is the cwd).
CanCreate(d, p) == Dirname(p) = <<>> \/ IsDir(d, Dirname(p))

----------------------------------------------------------------------------
(* extract_pages_pypdf, statement by statement.  A page is named by its    *)
(* 1-based number in the source.                                           *)

\* reader.pages[index] always returns the last page for an index past the end.
PagesGetClamped(npages, index) ==
    IF npages = 0 THEN <<>>
    ELSE IF index >= npages THEN <<npages>>
    ELSE IF index >= 0 THEN <<index + 1>>
    ELSE IF index >= -npages THEN <<npages + index + 1>>
    ELSE <<>>

\* reader.pages[index]: <<page>>, or <<>> for IndexError.  A negative index
\* counts from the end, as for any Python sequence.
PagesGet(npages, index) ==
    IF 0 <= index /\ index < npages THEN <<index + 1>>
    ELSE IF -npages <= index /\ index < 0 THEN <<npages + index + 1>>
    ELSE <<>>

\* The check is left out.
IsEncryptedIgnored(d) == FALSE

\* reader.is_encrypted
IsEncrypted(d) == d.encrypted

EmptyWriter == [pages |-> <<>>, metadata |-> "none"]

\* What open(output_path, "wb") leaves on disk before anything is written.
EmptyFile == [state |-> "empty", pages |-> <<>>, metadata |-> "none"]

\* A file that was there before the call.
OldFile == [state |-> "old", pages |-> <<>>, metadata |-> "none"]

\* writer.write(f)
Written(w) == [state |-> "pdf", pages |-> w.pages, metadata |-> w.metadata]

\* f with path p set to content c.
PutFile(f, p, c) ==
    [q \in DOMAIN f \cup {p} |-> IF q = p THEN c ELSE f[q]]

\* reader = pypdf.PdfReader(input_path)
ExtractOpenReader ==
    /\ epc = "reader"
    /\ UNCHANGED <<pvars, mvars>>
    /\ epc' = "is_encrypted"
    /\ UNCHANGED <<doc, output_path, page_numbers, copy_metadata, dirs, files,
                   dirs0, files0, writer, idx, estatus>>

\* if reader.is_encrypted: raise RuntimeError; writer = pypdf.PdfWriter()
ExtractCheckEncrypted ==
    /\ epc = "is_encrypted"
    /\ UNCHANGED <<pvars, mvars>>
    /\ IF IsEncrypted(doc)
       THEN epc' = "done" /\ estatus' = "RuntimeError"
       ELSE epc' = "for" /\ estatus' = estatus
    /\ writer' = EmptyWriter
    /\ idx' = 1
    /\ UNCHANGED <<doc, output_path, page_numbers, copy_metadata, dirs, files,
                   dirs0, files0>>

\* One turn of the for loop: writer.add_page(reader.pages[num - 1]).
ExtractAddPage ==
    /\ epc = "for"
    /\ UNCHANGED <<pvars, mvars>>
    /\ idx <= Len(page_numbers)
    /\ LET page == PagesGet(doc.npages, page_numbers[idx] - 1)
       IN IF page = <<>>
          THEN /\ epc' = "done"
               /\ estatus' = "IndexError"
               /\ UNCHANGED <<writer, idx>>
          ELSE /\ writer' = [writer EXCEPT !.pages = @ \o page]
               /\ idx' = idx + 1
               /\ UNCHANGED <<epc, estatus>>
    /\ UNCHANGED <<doc, output_path, page_numbers, copy_metadata, dirs, files,
                   dirs0, files0>>

\* The loop is over; if copy_metadata and reader.metadata: add_metadata.
ExtractMetadata ==
    /\ epc = "for"
    /\ UNCHANGED <<pvars, mvars>>
    /\ idx > Len(page_numbers)
    /\ writer' = IF copy_metadata /\ doc.metadata # "none"
                 THEN [writer EXCEPT !.metadata = doc.metadata]
                 ELSE writer
    /\ epc' = "makedirs"
    /\ UNCHANGED <<doc, output_path, page_numbers, copy_metadata, dirs, files,
                   dirs0, files0, idx, estatus>>

\* os.makedirs(os.path.dirname(output_path), exist_ok=True)
ExtractMakedirs ==
    /\ epc = "makedirs"
    /\ UNCHANGED <<pvars, mvars>>
    /\ LET r == Makedirs(dirs, Dirname(output_path))
       IN /\ dirs' = r.dirs
          /\ IF r.status = "ok"
             THEN epc' = "open" /\ estatus' = estatus
             ELSE epc' = "done" /\ estatus' = r.status
    /\ UNCHANGED <<doc, output_path, page_numbers, copy_metadata, files,
                   dirs0, files0, writer, idx>>

\* with open(output_path, "wb") as f
ExtractOpenOutput ==
    /\ epc = "open"
    /\ UNCHANGED <<pvars, mvars>>
    /\ IF CanCreate(dirs, output_path)
       THEN /\ files' = PutFile(files, output_path, EmptyFile)
            /\ epc' = "write"
            /\ estatus' = estatus
       ELSE /\ epc' = "done"
            /\ estatus' = "FileNotFoundError"
            /\ files' = files
    /\ UNCHANGED <<doc, output_path, page_numbers, copy_metadata, dirs,
                   dirs0, files0, writer, idx>>

\* writer.write(f), and the file is closed.
ExtractWrite ==
    /\ epc = "write"
    /\ UNCHANGED <<pvars, mvars>>
    /\ files' = PutFile(files, output_path, Written(writer))
    /\ epc' = "done"
    /\ estatus' = "ok"
    /\ UNCHANGED <<doc, output_path, page_numbers, copy_metadata, dirs,
                   dirs0, files0, writer, idx>>

ExtractNext ==
    \/ ExtractOpenReader
    \/ ExtractCheckEncrypted
    \/ ExtractAddPage
    \/ ExtractMetadata
    \/ ExtractMakedirs
    \/ ExtractOpenOutput
    \/ ExtractWrite

\* The for loop as a whole, from position i with the pages added so far:
\* <<"ok", pages>> or <<"IndexError", pages added before the failure>>.
RECURSIVE AddPages(_, _, _, _)
AddPages(npages, numbers, i, added) ==
    IF i > Len(numbers) THEN <<"ok", added>>
    ELSE LET page == PagesGet(npages, numbers[i] - 1)
         IN IF page = <<>> THEN <<"IndexError", added>>
            ELSE AddPages(npages, numbers, i + 1, added \o page)

\* A whole call of extract_pages_pypdf on document d from the file system
\* (ds, fs): how it ends and the file system it leaves.
ExtractRun(d, path, numbers, copy, ds, fs) ==
    IF IsEncrypted(d)
    THEN [status |-> "RuntimeError", dirs |-> ds, files |-> fs]
    ELSE LET added == AddPages(d.npages, numbers, 1, <<>>)
             w == [pages |-> added[2],
                   metadata |-> IF copy /\ d.metadata # "none"
                                THEN d.metadata ELSE "none"]
             made == Makedirs(ds, Dirname(path))
         IN IF added[1] # "ok"
            THEN [status |-> added[1], dirs |-> ds, files |-> fs]
            ELSE IF made.status # "ok"
            THEN [status |-> made.status, dirs |-> made.dirs, files |-> fs]
            ELSE IF ~CanCreate(made.dirs, path)
            THEN [status |-> "FileNotFoundError", dirs |-> made.dirs,
                  files |-> fs]
            ELSE [status |-> "ok", dirs |-> made.dirs,
                  files |-> PutFile(fs, path, Written(w))]

\* The output paths of Init: a bare name, an existing or missing parent,
\* several missing parents.
OutputPaths ==
    {<<"x", ".", "p", "d", "f">>,
     <<"o", "u", "t", "/", "x", ".", "p", "d", "f">>,
     <<"o", "u", "t", "/", "s", "u", "b", "/", "x", ".", "p", "d", "f">>}

Documents ==
    [encrypted : BOOLEAN, npages : 0..MaxPages, metadata : {"none", "info"}]

\* The directory trees of Init: a directory exists only inside an existing one.
DirTrees ==
    {{}, {<<"o", "u", "t">>}, {<<"o", "u", "t">>, <<"o", "u", "t", "/", "s", "u", "b">>}}

ExtractInit ==
    /\ doc \in Documents
    /\ output_path \in OutputPaths
    /\ page_numbers \in Strings(0..(MaxPages + 1), MaxPageNumbers)
    /\ copy_metadata \in BOOLEAN
    /\ dirs \in DirTrees
    /\ files \in {<<>>} \cup
                 (IF CanCreate(dirs, output_path)
                  THEN {PutFile(<<>>, output_path, OldFile)} ELSE {})
    /\ dirs0 = dirs
    /\ files0 = files
    /\ epc = "reader"
    /\ writer = EmptyWriter
    /\ idx = 1
    /\ estatus = "running"

\* No call of extract_pages_pypdf is under way.
ExtractIdle ==
    /\ doc = [encrypted |-> FALSE, npages |-> 0, metadata |-> "none"]
    /\ output_path = <<>>
    /\ page_numbers = <<>>
    /\ copy_metadata = FALSE
    /\ dirs = {}
    /\ files = <<>>
    /\ dirs0 = {}
    /\ files0 = <<>>
    /\ epc = "idle"
    /\ writer = EmptyWriter
    /\ idx = 1
    /\ estatus = "idle"

\* No call of parse_page_spec is under way.
ParseIdle ==
    /\ page_spec = <<>>
    /\ total_pages = None
    /\ ppc = "idle"
    /\ presult = NoResult
    /\ presult2 = NoResult

----------------------------------------------------------------------------
(* The command main.                                                       *)

UpperChars == <<"A", "B", "C", "D", "E", "F", "G", "H", "I", "J", "K", "L", "M", "N", "O", "P", "Q", "R", "S", "T", "U", "V", "W", "X", "Y", "Z">>

LowerChars == <<"a", "b", "c", "d", "e", "f", "g", "h", "i", "j", "k", "l", "m", "n", "o", "p", "q", "r", "s", "t", "u", "v", "w", "x", "y", "z">>

\* One character through str.lower().
LowerChar(c) ==
    IF \E i \in 1..26 : UpperChars[i] = c
    THEN LowerChars[CHOOSE i \in 1..26 : UpperChars[i] = c]
    ELSE c

\* input_path.lower()
Lower(p) == [i \in 1..Len(p) |-> LowerChar(p[i])]

\* p.endswith(suffix)
EndsWith(p, suffix) ==
    /\ Len(p) >= Len(suffix)
    /\ SubSeq(p, Len(p) - Len(suffix) + 1, Len(p)) = suffix

\* input_path.endswith(".pdf"), the case of the letters not folded.
HasPdfSuffixCaseSensitive(p) == EndsWith(p, <<".", "p", "d", "f">>)

\* input_path.lower().endswith(".pdf")
HasPdfSuffix(p) == EndsWith(Lower(p), <<".", "p", "d", "f">>)

\* os.path.isabs(p)
IsAbs(p) == p # <<>> /\ p[1] = "/"

\* os.path.join(a, b)
PathJoin(a, b) ==
    IF IsAbs(b) THEN b
    ELSE IF a = <<>> \/ a[Len(a)] = "/" THEN a \o b
    ELSE a \o <<"/">> \o b

\* os.path.basename(p)
Basename(p) == SubSeq(p, LastSlash(p) + 1, Len(p))

\* os.path.splitext(p)[0]: the last dot splits, unless only dots lead to it.
SplitextRoot(p) ==
    LET dots == {i \in 1..Len(p) : p[i] = "."}
        dot == IF dots = {} THEN 0 ELSE CHOOSE i \in dots : \A j \in dots : i >= j
    IN IF dot > LastSlash(p)
          /\ \E i \in (LastSlash(p) + 1)..(dot - 1) : p[i] # "."
       THEN SubSeq(p, 1, dot - 1)
       ELSE p

InputDir == <<"i", "n", "p", "u", "t", "_", "p", "d", "f", "s">>

OutDir == <<"o", "u", "t", "p", "u", "t", "_", "p", "d", "f", "s">>

\* The name of the output file: --output, or <stem>_pages.pdf.
OutName(out, inp) ==
    IF out # <<>> THEN out
    ELSE SplitextRoot(Basename(inp)) \o <<"_", "p", "a", "g", "e", "s", ".", "p", "d", "f">>

\* parse_page_spec(pages) is called without the page count.
MainTotalArgMissing(total) == None

\* The total_pages argument main hands to parse_page_spec.
MainTotalArg(total) == <<total>>

NoMessage == [kind |-> "none", hint |-> "", path |-> <<>>]

\* click.BadParameter(message, param_hint=hint)
BadParameter(kind, hint) == [kind |-> kind, hint |-> hint, path |-> <<>>]

\* The command ends on a click.BadParameter: click shows the message and
\* exits with the status of a usage error.
MainFail(kind, hint) ==
    /\ mpc' = "exit"
    /\ exit_code' = 2
    /\ stderr' = BadParameter(kind, hint)

\* The extension check.
MainCheckExtension ==
    /\ mpc = "extension"
    /\ UNCHANGED pvars
    /\ trace' = Append(trace, "extension")
    /\ IF ~HasPdfSuffix(input_path)
       THEN MainFail("bad_extension", "--input")
       ELSE mpc' = "resolve" /\ UNCHANGED <<exit_code, stderr>>
    /\ UNCHANGED <<input_path, pages, output, input_files, readable,
                   full_path, main_total, main_pages, stdout>>
    /\ UNCHANGED evars

\* The full path of the input file.
MainResolve ==
    /\ mpc = "resolve"
    /\ UNCHANGED pvars
    /\ trace' = Append(trace, "resolve")
    /\ IF IsAbs(input_path) /\ input_path \in input_files
       THEN /\ full_path' = input_path
            /\ mpc' = "open"
            /\ UNCHANGED <<exit_code, stderr>>
       ELSE LET candidate == PathJoin(InputDir, input_path)
            IN IF candidate \in input_files
               THEN /\ full_path' = candidate
                    /\ mpc' = "open"
                    /\ UNCHANGED <<exit_code, stderr>>
               ELSE /\ MainFail("not_found", "--input")
                    /\ UNCHANGED full_path
    /\ UNCHANGED <<input_path, pages, output, input_files, readable,
                   main_total, main_pages, stdout>>
    /\ UNCHANGED evars

\* reader = pypdf.PdfReader(full_path), any exception reported.
MainOpen ==
    /\ mpc = "open"
    /\ UNCHANGED pvars
    /\ trace' = Append(trace, "open")
    /\ IF ~readable
       THEN MainFail("cannot_open", "--input")
       ELSE mpc' = "encrypted" /\ UNCHANGED <<exit_code, stderr>>
    /\ UNCHANGED <<input_path, pages, output, input_files, readable,
                   full_path, main_total, main_pages, stdout>>
    /\ UNCHANGED evars

\* if reader.is_encrypted: ...; total_pages = len(reader.pages)
MainCheckEncrypted ==
    /\ mpc = "encrypted"
    /\ UNCHANGED pvars
    /\ trace' = Append(trace, "encrypted")
    /\ IF IsEncrypted(doc)
       THEN MainFail("encrypted", "--input") /\ UNCHANGED main_total
       ELSE /\ main_total' = doc.npages
            /\ mpc' = "parse"
            /\ UNCHANGED <<exit_code, stderr>>
    /\ UNCHANGED <<input_path, pages, output, input_files, readable,
                   full_path, main_pages, stdout>>
    /\ UNCHANGED evars

\* page_numbers = parse_page_spec(pages, total_pages), ValueError reported.
MainParse ==
    /\ mpc = "parse"
    /\ UNCHANGED pvars
    /\ trace' = Append(trace, "parse")
    /\ LET r == parse_page_spec(pages, MainTotalArg(main_total))
       IN IF r.status # "ok"
          THEN MainFail(r.status, "--pages") /\ UNCHANGED main_pages
          ELSE /\ main_pages' = r.value
               /\ mpc' = "makedirs"
               /\ UNCHANGED <<exit_code, stderr>>
    /\ UNCHANGED <<input_path, pages, output, input_files, readable,
                   full_path, main_total, stdout>>
    /\ UNCHANGED evars

\* The output name, os.makedirs(out_dir, exist_ok=True) and the output path.
MainOutputDir ==
    /\ mpc = "makedirs"
    /\ UNCHANGED pvars
    /\ trace' = Append(trace, "makedirs")
    /\ LET made == Makedirs(dirs, OutDir)
       IN /\ dirs' = made.dirs
          /\ IF made.status = "ok"
             THEN /\ output_path' = PathJoin(OutDir, OutName(output, input_path))
                  /\ mpc' = "extract"
                  /\ UNCHANGED <<exit_code, stderr>>
             ELSE /\ mpc' = "exit"
                  /\ exit_code' = 1
                  /\ stderr' = BadParameter(made.status, "traceback")
                  /\ UNCHANGED output_path
    /\ UNCHANGED <<input_path, pages, output, input_files, readable,
                   full_path, main_total, main_pages, stdout>>
    /\ UNCHANGED <<doc, page_numbers, copy_metadata, files, dirs0, files0,
                   epc, writer, idx, estatus>>

\* extract_pages_pypdf(full_path, output_path_full, page_numbers), with
\* RuntimeError reported and any other exception left to end the command.
MainExtract ==
    /\ mpc = "extract"
    /\ UNCHANGED pvars
    /\ trace' = Append(trace, "extract")
    /\ page_numbers' = main_pages
    /\ copy_metadata' = FALSE
    /\ dirs0' = dirs
    /\ files0' = files
    /\ LET r == ExtractRun(doc, output_path, main_pages, FALSE, dirs, files)
       IN /\ dirs' = r.dirs
          /\ files' = r.files
          /\ estatus' = r.status
          /\ epc' = "done"
          /\ IF r.status = "ok"
             THEN mpc' = "confirm" /\ UNCHANGED <<exit_code, stderr>>
             ELSE IF r.status = "RuntimeError"
             THEN MainFail("encrypted", "")
             ELSE /\ mpc' = "exit"
                  /\ exit_code' = 1
                  /\ stderr' = BadParameter(r.status, "traceback")
    /\ UNCHANGED <<input_path, pages, output, input_files, readable,
                   full_path, main_total, main_pages, stdout>>
    /\ UNCHANGED <<doc, output_path, writer, idx>>

\* click.echo of the confirmation; the command returns.
MainEcho ==
    /\ mpc = "confirm"
    /\ UNCHANGED pvars
    /\ trace' = Append(trace, "confirm")
    /\ stdout' = [kind |-> "created", hint |-> "", path |-> output_path]
    /\ exit_code' = 0
    /\ mpc' = "exit"
    /\ UNCHANGED <<input_path, pages, output, input_files, readable,
                   full_path, main_total, main_pages, stderr>>
    /\ UNCHANGED evars

MainNext ==
    \/ MainCheckExtension
    \/ MainResolve
    \/ MainOpen
    \/ MainCheckEncrypted
    \/ MainParse
    \/ MainOutputDir
    \/ MainExtract
    \/ MainEcho

\* The --input values of Init.
InputNames ==
    {<<"a", ".", "p", "d", "f">>,
     <<"A", ".", "P", "D", "F">>,
     <<"a", ".", "t", "x", "t">>,
     <<"/", "a", ".", "p", "d", "f">>,
     <<"d", "/", "a", ".", "p", "d", "f">>,
     <<".", "p", "d", "f">>}

\* The --pages values of Init.
MainPageSpecs ==
    {<<>>,
     <<"1">>,
     <<"2", ",", "1">>,
     <<"1", "-", "2">>,
     <<"2", "-", "1">>,
     <<"0">>,
     <<"a">>,
     <<"1", ",", "3">>}

\* The --output values of Init.
OutputNames ==
    {<<>>,
     <<"s", ".", "p", "d", "f">>,
     <<"/", "s", ".", "p", "d", "f">>,
     <<"s", "u", "b", "/", "s", ".", "p", "d", "f">>}

MainInit ==
    /\ input_path \in InputNames
    /\ pages \in MainPageSpecs
    /\ output \in OutputNames
    /\ input_files \in {{}, {PathJoin(InputDir, input_path)}}
    /\ readable \in BOOLEAN
    /\ doc \in Documents
    /\ dirs \in {{}, {OutDir}}
    /\ files = <<>>
    /\ dirs0 = dirs
    /\ files0 = files
    /\ output_path = <<>>
    /\ page_numbers = <<>>
    /\ copy_metadata = FALSE
    /\ epc = "idle"
    /\ writer = EmptyWriter
    /\ idx = 1
    /\ estatus = "idle"
    /\ mpc = "extension"
    /\ full_path = <<>>
    /\ main_total = 0
    /\ main_pages = <<>>
    /\ exit_code = -1
    /\ stderr = NoMessage
    /\ stdout = NoMessage
    /\ trace = <<>>

\* The command is not running.
MainIdle ==
    /\ input_path = <<>>
    /\ pages = <<>>
    /\ output = <<>>
    /\ input_files = {}
    /\ readable = FALSE
    /\ mpc = "idle"
    /\ full_path = <<>>
    /\ main_total = 0
    /\ main_pages = <<>>
    /\ exit_code = -1
    /\ stderr = NoMessage
    /\ stdout = NoMessage
    /\ trace = <<>>

\* The parser is called; nothing else runs.
InitParse == ParseInit /\ ExtractIdle /\ MainIdle

SpecParse == InitParse /\ [][ParseNext]_vars

\* extract_pages_pypdf is called directly; nothing else runs.
InitExtract == ExtractInit /\ ParseIdle /\ MainIdle

SpecExtract == InitExtract /\ [][ExtractNext]_vars

\* The command is run.
InitMain == MainInit /\ ParseIdle

SpecMain == InitMain /\ [][MainNext]_vars

----------------------------------------------------------------------------
(* What a page spec denotes, read off the string position by position:     *)
(* the reference the parser's results are compared with.                   *)

\* The positions that bound the comma-separated pieces of s.
Cuts(s) == {0, Len(s) + 1} \cup {i \in 1..Len(s) : s[i] = ","}

\* The j-th of them, counted from 0.
Cut(s, j) == CHOOSE c \in Cuts(s) : Cardinality({d \in Cuts(s) : d < c}) = j

NumPieces(s) == Cardinality(Cuts(s)) - 1

\* A piece without its surrounding whitespace.
Trim(p) ==
    LET ink == {i \in 1..Len(p) : p[i] \notin Whitespace}
    IN IF ink = {} THEN <<>>
       ELSE SubSeq(p, CHOOSE i \in ink : \A j \in ink : i <= j,
                      CHOOSE i \in ink : \A j \in ink : i >= j)

\* The k-th piece of s, trimmed.
Piece(s, k) == Trim(SubSeq(s, Cut(s, k - 1) + 1, Cut(s, k) - 1))

RECURSIVE Pow10(_)
Pow10(n) == IF n = 0 THEN 1 ELSE 10 * Pow10(n - 1)

RECURSIVE PlaceSum(_, _)
PlaceSum(d, i) ==
    IF i > Len(d) THEN 0
    ELSE DigitVal(d[i]) * Pow10(Len(d) - i) + PlaceSum(d, i + 1)

\* The number a string of decimal digits denotes.
Value(d) == PlaceSum(d, 1)

IsNumber(p) == p # <<>> /\ \A i \in 1..Len(p) : p[i] \in Digits

Dashes(p) == {i \in 1..Len(p) : p[i] = "-"}

IsRange(p) ==
    /\ Cardinality(Dashes(p)) = 1
    /\ \A i \in 1..Len(p) : p[i] \in Digits \cup {"-"}
    /\ p[1] # "-"
    /\ p[Len(p)] # "-"

Lo(p) == Value(SubSeq(p, 1, (CHOOSE i \in Dashes(p) : TRUE) - 1))

Hi(p) == Value(SubSeq(p, (CHOOSE i \in Dashes(p) : TRUE) + 1, Len(p)))

ValidPiece(p) ==
    \/ IsNumber(p) /\ Value(p) > 0
    \/ IsRange(p) /\ 0 < Lo(p) /\ Lo(p) <= Hi(p)

\* The pages a valid piece asks for.
PiecePages(p) == IF IsNumber(p) THEN {Value(p)} ELSE Lo(p)..Hi(p)

\* The non-empty pieces of s, by position.
NonEmptyPieces(s) == {k \in 1..NumPieces(s) : Piece(s, k) # <<>>}

AllValid(s) == \A k \in NonEmptyPieces(s) : ValidPiece(Piece(s, k))

\* The pages an all-valid spec asks for.
SpecPages(s) == UNION {PiecePages(Piece(s, k)) : k \in NonEmptyPieces(s)}

\* The first invalid piece of a spec that has one.
FirstInvalid(s) ==
    LET bad == {k \in NonEmptyPieces(s) : ~ValidPiece(Piece(s, k))}
    IN Piece(s, CHOOSE k \in bad : \A j \in bad : k <= j)

\* The error an invalid piece calls for: "order" for start > end with both
\* bounds positive, "format" for everything else.
PieceError(p) ==
    IF IsRange(p) /\ Lo(p) > 0 /\ Hi(p) > 0 /\ Lo(p) > Hi(p) THEN "order"
    ELSE "format"

\* The class of error a result stands for.
ErrorClass(r) ==
    IF r.status \in {"bad_range", "bad_number", "bad_format"} THEN "format"
    ELSE IF r.status = "start_gt_end" THEN "order"
    ELSE r.status

StrictlyAscending(list) ==
    \A i \in 1..(Len(list) - 1) : list[i] < list[i + 1]

Elements(list) == {list[i] : i \in 1..Len(list)}

Returned == ppc \in {"returned", "reparsed"}

----------------------------------------------------------------------------
(* Properties of parse_page_spec.                                          *)

\* C1: with total_pages not supplied and every non-empty trimmed piece a
\* valid single or range, parse_page_spec returns a strictly ascending list
\* whose elements are exactly the singles and the integers of the ranges;
\* a spec with no non-empty piece returns the empty list.
C1_SortedUnion ==
    (Returned /\ total_pages = None /\ AllValid(page_spec)) =>
        /\ presult.status = "ok"
        /\ StrictlyAscending(presult.value)
        /\ Elements(presult.value) = SpecPages(page_spec)
        /\ (NonEmptyPieces(page_spec) = {} => presult.value = <<>>)

\* A range and a single that overlap, given out of order, have been parsed.
C1_Witness ==
    /\ Returned /\ total_pages = None /\ AllValid(page_spec)
    /\ \E k \in NonEmptyPieces(page_spec) : IsRange(Piece(page_spec, k))
    /\ \E k \in NonEmptyPieces(page_spec) : IsNumber(Piece(page_spec, k))
    /\ presult.value = <<1, 2>>

\* C2: when some non-empty trimmed piece is invalid, parse_page_spec raises
\* and returns no list; the error is the one the first invalid piece calls
\* for (order error for start > end with positive bounds, format error for
\* a zero, a zero bound or a piece matching neither pattern) and it holds
\* that piece as trimmed.
C2_ErrorByPiece ==
    (Returned /\ ~AllValid(page_spec)) =>
        /\ presult.status # "ok"
        /\ presult.value = <<>>
        /\ ErrorClass(presult) = PieceError(FirstInvalid(page_spec))
        /\ presult.part = FirstInvalid(page_spec)

\* A start > end range after a valid piece has been rejected.
C2_Witness ==
    /\ Returned
    /\ presult.status = "start_gt_end"
    /\ presult.part = <<"2", "-", "1">>
    /\ NumPieces(page_spec) > 1

\* C3: with total_pages supplied (0 included) and every piece valid, the
\* call succeeds exactly when every page asked for is <= total_pages; on
\* success every element is in 1..total_pages; on failure the error is the
\* out-of-range error and lists exactly the pages asked for that exceed
\* total_pages.
C3_TotalPages ==
    (Returned /\ total_pages # None /\ AllValid(page_spec)) =>
        LET tp == total_pages[1]
            over == {n \in SpecPages(page_spec) : n > tp}
        IN /\ (presult.status = "ok") <=> (over = {})
           /\ presult.status = "ok" =>
                  \A n \in Elements(presult.value) : 1 <= n /\ n <= tp
           /\ presult.status # "ok" =>
                  /\ presult.status = "out_of_range"
                  /\ Elements(presult.invalid) = over
                  /\ Len(presult.invalid) = Cardinality(over)

\* The out-of-range error listed several pages while one page was in range.
C3_Witness ==
    /\ Returned /\ total_pages # None /\ AllValid(page_spec)
    /\ presult.status = "out_of_range"
    /\ Len(presult.invalid) >= 2
    /\ \E n \in SpecPages(page_spec) : n <= total_pages[1]

\* C4: when parse_page_spec succeeds, parsing its result joined with commas,
\* with the same total_pages, succeeds and returns the same list.
C4_Idempotent ==
    ppc = "reparsed" =>
        /\ presult2.status = "ok"
        /\ presult2.value = presult.value

\* A result with one-digit and two-digit numbers has been parsed again.
C4_Witness ==
    /\ ppc = "reparsed"
    /\ Len(presult.value) > 1
    /\ \E i \in 1..Len(presult.value) : presult.value[i] >= 10

\* The empty result has been parsed again.
C4_EmptyReparsed == ppc = "reparsed" /\ presult.value = <<>>

----------------------------------------------------------------------------
(* Properties of extract_pages_pypdf.                                      *)

\* Every element of page_numbers is a page of the source.
InRange == \A i \in 1..Len(page_numbers) :
               1 <= page_numbers[i] /\ page_numbers[i] <= doc.npages

Extracting == epc \notin {"idle"}

\* The output file holds a written document.
OutputWritten ==
    /\ output_path \in DOMAIN files
    /\ files[output_path].state = "pdf"

\* The statements of extract_pages_pypdf, run one at a time, end as the
\* call taken as a whole does.
ExtractRunAgrees ==
    epc = "done" =>
        LET r == ExtractRun(doc, output_path, page_numbers, copy_metadata,
                            dirs0, files0)
        IN estatus = r.status /\ dirs = r.dirs /\ files = r.files

\* Whatever is written is the builder's content: page i of the output is
\* the source page numbered page_numbers[i].
WrittenPagesAreRequested ==
    (Extracting /\ InRange /\ OutputWritten) =>
        files[output_path].pages = page_numbers

\* C5: for an unencrypted source and page_numbers within 1..N, the call
\* writes an output document with len(page_numbers) pages, page i being
\* the source page numbered page_numbers[i].
C5_OutputPages ==
    (epc = "done" /\ ~doc.encrypted /\ InRange) =>
        /\ estatus = "ok"
        /\ OutputWritten
        /\ Len(files[output_path].pages) = Len(page_numbers)
        /\ files[output_path].pages = page_numbers

\* C6: on an encrypted source the call raises the encryption error with no
\* page appended, no directory created and no file created or opened.
C6_EncryptedNoOutput ==
    (Extracting /\ doc.encrypted) =>
        /\ writer.pages = <<>>
        /\ dirs = dirs0
        /\ files = files0
        /\ epc \in {"reader", "is_encrypted", "done"}
        /\ (epc = "done" => estatus = "RuntimeError")

\* An encrypted source was refused with pages asked for and the output
\* directory missing.
C6_Witness ==
    /\ doc.encrypted
    /\ epc = "done"
    /\ estatus = "RuntimeError"
    /\ Len(page_numbers) > 0
    /\ Dirname(output_path) # <<>>
    /\ ~IsDir(dirs, Dirname(output_path))

\* C7: for an unencrypted source and in-range pages, whatever the shape of
\* output_path (missing parents, existing parent, bare file name), the
\* directory of the output exists before the file is opened, missing
\* directories are created, and the call writes the file.
C7_DirectoryReady ==
    (Extracting /\ ~doc.encrypted /\ InRange) =>
        /\ epc \in {"open", "write"} =>
               /\ CanCreate(dirs, output_path)
               /\ Ancestors(Dirname(output_path)) \subseteq dirs
        /\ epc = "done" => estatus = "ok" /\ OutputWritten

\* C10: if some element of page_numbers is greater than the page count, the
\* call fails with no directory created and no file created or modified.
C10_NoOutputOnBadPage ==
    (Extracting /\ ~doc.encrypted
        /\ \E i \in 1..Len(page_numbers) : page_numbers[i] > doc.npages) =>
        /\ dirs = dirs0
        /\ files = files0
        /\ epc \notin {"open", "write"}
        /\ (epc = "done" => estatus = "IndexError")

\* The lookup failed after a valid element, with the output directory
\* missing and an earlier file in place.
C10_Witness ==
    /\ ~doc.encrypted
    /\ epc = "done"
    /\ estatus = "IndexError"
    /\ Len(writer.pages) > 0
    /\ output_path \in DOMAIN files
    /\ \E p \in OutputPaths : ~IsDir(dirs, Dirname(p))

----------------------------------------------------------------------------
(* Properties of the command main.                                         *)

\* The name ends in ".pdf", in any letter case.
PdfName(p) ==
    /\ Len(p) >= 4
    /\ p[Len(p) - 3] = "."
    /\ p[Len(p) - 2] \in {"p", "P"}
    /\ p[Len(p) - 1] \in {"d", "D"}
    /\ p[Len(p)] \in {"f", "F"}

\* The input file exists: the name itself when absolute, else under InputDir.
InputFound ==
    IF input_path[1] = "/" THEN input_path \in input_files
    ELSE (InputDir \o <<"/">> \o input_path) \in input_files

\* The page spec is well formed and within the document.
PagesAccepted ==
    /\ AllValid(pages)
    /\ \A n \in SpecPages(pages) : n <= doc.npages

\* The checks of the command in their order, and the first that fails
\* ("none" when all pass).
CheckOrder ==
    <<"extension", "resolve", "open", "encrypted", "parse", "makedirs",
      "extract", "confirm">>

FirstFailing ==
    IF ~PdfName(input_path) THEN "extension"
    ELSE IF ~InputFound THEN "resolve"
    ELSE IF ~readable THEN "open"
    ELSE IF doc.encrypted THEN "encrypted"
    ELSE IF ~PagesAccepted THEN "parse"
    ELSE "none"

\* The check an error message belongs to.
ErrorStep(kind) ==
    IF kind = "bad_extension" THEN "extension"
    ELSE IF kind = "not_found" THEN "resolve"
    ELSE IF kind = "cannot_open" THEN "open"
    ELSE IF kind = "encrypted" THEN "encrypted"
    ELSE IF kind \in {"bad_range", "start_gt_end", "bad_number", "bad_format",
                      "out_of_range"} THEN "parse"
    ELSE "other"

Steps == {trace[i] : i \in 1..Len(trace)}

MainRunning == mpc # "idle"

\* C8: the command exits non-zero with a message and no confirmation on
\* every validation failure, and exits zero with a confirmation naming the
\* output path exactly when every validation passes and the extraction
\* completes.
C8_ExitBehaviour ==
    MainRunning =>
        /\ stdout # NoMessage => mpc = "exit" /\ exit_code = 0
        /\ mpc = "exit" =>
               IF FirstFailing # "none"
               THEN /\ exit_code # 0
                    /\ stderr # NoMessage
                    /\ stdout = NoMessage
               ELSE /\ exit_code = 0
                    /\ estatus = "ok"
                    /\ stdout.kind = "created"
                    /\ stdout.path = output_path
                    /\ stdout.path \in DOMAIN files
                    /\ files[stdout.path].state = "pdf"

\* An upper-case .PDF name, found and valid, was extracted to the default
\* output name and confirmed.
C8_Witness ==
    /\ mpc = "exit"
    /\ exit_code = 0
    /\ input_path[1] = "A"
    /\ output = <<>>
    /\ Len(main_pages) = 2
    /\ EndsWith(stdout.path, OutName(<<>>, input_path))

\* C9: the steps run in the fixed order; the first failing check is the
\* one reported and no later step runs; the output directory is created
\* and the extraction called only after every check has passed, and the
\* extraction is only called with pages within 1..total_pages.
C9_StepOrder ==
    MainRunning =>
        /\ Len(trace) <= Len(CheckOrder)
        /\ trace = SubSeq(CheckOrder, 1, Len(trace))
        /\ (mpc = "exit" /\ FirstFailing # "none") =>
               /\ trace[Len(trace)] = FirstFailing
               /\ ErrorStep(stderr.kind) = FirstFailing
        /\ "makedirs" \notin Steps => dirs = dirs0 /\ files = files0
        /\ "makedirs" \in Steps => FirstFailing = "none"
        /\ epc # "idle" <=> "extract" \in Steps
        /\ "extract" \in Steps =>
               /\ FirstFailing = "none"
               /\ page_numbers = main_pages
               /\ \A i \in 1..Len(page_numbers) :
                      1 <= page_numbers[i] /\ page_numbers[i] <= doc.npages

\* A name that is neither a .pdf name nor an existing file was reported as
\* a bad extension, with no later step run.
C9_Witness ==
    /\ mpc = "exit"
    /\ ~PdfName(input_path)
    /\ ~InputFound
    /\ stderr.kind = "bad_extension"
    /\ trace = <<"extension">>

\* The extraction was called with a non-empty page list after all checks.
C9_ExtractCalled ==
    /\ "extract" \in Steps
    /\ Len(page_numbers) > 0
    /\ OutDir \in dirs
    /\ OutDir \notin DOMAIN files

====
